---- MODULE Spec2Model ----
(***************************************************************************)
(* Case-study interview system: the LangGraph interview graph              *)
(* (graph/graph_builder.py, graph/nodes/interview_nodes.py), the           *)
(* InterviewState record (graph/state.py) and the Streamlit driver that    *)
(* owns the state and starts every pass of the graph (app.py).             *)
(*                                                                         *)
(* One pass of the graph (graph.stream in process_graph_stream) is a       *)
(* sequence of node executions; process_graph_stream merges the update of  *)
(* every node into the session's interview_state as soon as the node has   *)
(* returned, so a pass is modelled node by node with the position pc.      *)
(* The graph is compiled without a checkpointer: every pass starts at the  *)
(* entry point classification_node.                                        *)
(***************************************************************************)
EXTENDS Integers, Sequences, FiniteSets, TLC

(* ------------------------------ bounds --------------------------------- *)
MaxMessages == 16      \* no pass is started on a transcript longer than this
MaxWords == 11         \* the longest response a candidate submits, in words

(* ------------------------- program constants --------------------------- *)
RequiredMcqAnswers == 3        \* after_classification / generate_mcq_node
UnderstandingMax == 3          \* understanding_node: max_questions
ApproachMax == 4               \* approach_node: max_questions
FollowupMax == 3               \* followup_node: max_questions
MinWords == 10                 \* render_standard_input: word_count < 10
McqUiQuestions == 3            \* mcq_phase: len(mcq_questions) < 3
FallbackQuestions == 3         \* generate_mcq_node: len(fallback_questions)

VARIABLES
    interview_state,            \* st.session_state.interview_state
    initialized,                \* st.session_state.initialized
    current_page,               \* st.session_state.current_page
    validation_error,           \* st.session_state.validation_error
    awaiting_custom_industry,   \* st.session_state['awaiting_custom_industry']
    pc,                         \* position of the running pass: idle, a node, END, failed
    caller,                     \* the call site of process_graph_stream that awaits the pass
    entry,                      \* the state handed to graph.stream by the running pass
    llm_calls,                  \* llm.invoke calls made so far by the running pass
    prev                        \* the node that executed last in the running pass

vars == <<interview_state, initialized, current_page, validation_error,
          awaiting_custom_industry, pc, caller, entry, llm_calls, prev>>

(* ------------------------------ messages ------------------------------- *)
AI(k) == [type |-> "ai", kind |-> k]
Human(k) == [type |-> "human", kind |-> k]

HasHuman(msgs) == \E i \in 1..Len(msgs) : msgs[i].type = "human"

(* ------------------------------ case study ----------------------------- *)
RequiredCaseFields ==
    {"title", "company_name", "situation", "problem_statement", "initial_information"}

NoCase == [id |-> 0, fields |-> {}]

\* a freshly generated document is a new object: its id differs from the stored one
NewCaseId(st) == IF st.case_study.id = 1 THEN 2 ELSE 1

CaseExists(st) == st.case_study # NoCase

\* state.get('case_study') and state.get('case_study').get('company_name')
HasCompanyName(st) == CaseExists(st) /\ "company_name" \in st.case_study.fields

(* ------------------------------ evaluations ---------------------------- *)
\* scores are in tenths of a point: 75 is the score 7.5

\* candidate_key_responses is the number of excerpts the evaluation carries and
\* keys the set of keys of the dictionary

\* _evaluate_phase: the slice messages[:30] scanned for candidate responses
ScannedMessages == 30

\* _evaluate_phase: the scan stops at five candidate responses
MaxCandidateResponses == 5

\* _evaluate_phase: candidate_responses[:2]
ExcerptSlice == 2

\* the keys of the evaluation of the prompt's example and of the fallback dictionary
EvaluationKeys ==
    {"score", "strengths", "weaknesses", "key_observations",
     "candidate_key_responses", "overall_comment"}

\* a phase evaluation the state does not hold yet
NoEvaluation ==
    [source |-> "unset", score |-> 0, key_observations |-> "none",
     candidate_key_responses |-> 0, keys |-> {}]

\* _evaluate_phase: the evaluation the generation service returns (the prompt's example)
GeneratedEvaluation ==
    [source |-> "generated", score |-> 75, key_observations |-> "generated",
     candidate_key_responses |-> 2, keys |-> EvaluationKeys]

\* _evaluate_phase: the evaluation used when the response holds no JSON
FallbackEvaluation ==
    [source |-> "fallback", score |-> 70, key_observations |-> "basic_understanding",
     candidate_key_responses |-> 2, keys |-> EvaluationKeys]

\* _evaluate_phase: len(candidate_responses), the human messages found in the scan
CandidateResponses(st) ==
    LET scanned == 1..(IF Len(st.messages) < ScannedMessages
                       THEN Len(st.messages) ELSE ScannedMessages)
        found == Cardinality({i \in scanned : st.messages[i].type = "human"})
    IN IF found < MaxCandidateResponses THEN found ELSE MaxCandidateResponses

\* the members of a set of positions in increasing order
Ascending(S) ==
    [k \in 1..Cardinality(S) |-> CHOOSE i \in S : Cardinality({j \in S : j < i}) = k - 1]

\* _evaluate_phase: candidate_responses, the last five human messages of
\* messages[:30] in transcript order
candidate_responses(st) ==
    LET scanned == 1..(IF Len(st.messages) < ScannedMessages
                       THEN Len(st.messages) ELSE ScannedMessages)
        human == {i \in scanned : st.messages[i].type = "human"}
        kept == {i \in human :
                    Cardinality({j \in human : j > i}) < MaxCandidateResponses}
    IN [k \in 1..Cardinality(kept) |-> st.messages[Ascending(kept)[k]]]

\* _evaluate_phase: len(candidate_responses[:2])
Excerpts(st) ==
    IF CandidateResponses(st) < ExcerptSlice THEN CandidateResponses(st) ELSE ExcerptSlice

\* the keys of the final evaluation of the prompt's example and of the fallback
FinalEvaluationKeys ==
    {"overall_score", "performance_level", "interview_summary", "dimension_scores",
     "key_strengths", "development_areas", "phase_breakdown", "recommended_next_steps"}

\* a final evaluation the state does not hold yet
NoFinalEvaluation ==
    [source |-> "unset", overall_score |-> 0, performance_level |-> "none",
     weights |-> << >>, keys |-> {}]

\* final_evaluation_node: the document the generation service returns when it
\* follows the prompt's example (six entries)
GeneratedFinalEvaluation ==
    [source |-> "generated", overall_score |-> 75, performance_level |-> "Strong",
     weights |-> <<25, 15, 15, 15, 15, 15>>, keys |-> FinalEvaluationKeys]

\* final_evaluation_node: the document used when the response holds no JSON or no
\* dimension_scores
FallbackFinalEvaluation ==
    [source |-> "fallback", overall_score |-> 70, performance_level |-> "Satisfactory",
     weights |-> <<25, 15>>, keys |-> FinalEvaluationKeys]

(* ------------------------------ state record --------------------------- *)
\* the dictionary built by welcome_page (same values as create_initial_state);
\* a key the dictionary does not hold reads as its .get default
InitialState ==
    [ messages |-> << >>,
      mcq_questions |-> << >>,
      classification_answers |-> << >>,
      mcq_answers |-> << >>,
      mcq_current_question |-> 0,
      mcq_completed |-> FALSE,
      domain |-> "unset",
      industry |-> "unset",
      case_type |-> "unset",
      tech_type |-> "unset",
      case_study |-> NoCase,
      current_phase |-> "classification",
      current_activity |-> "start",
      understanding_question_count |-> 0,
      understanding_complete |-> FALSE,
      understanding_evaluation |-> NoEvaluation,
      approach_question_count |-> 0,
      approach_complete |-> FALSE,
      approach_evaluation |-> NoEvaluation,
      followup_question_count |-> 0,
      followup_complete |-> FALSE,
      followup_evaluation |-> NoEvaluation,
      final_evaluation |-> NoFinalEvaluation,
      interview_complete |-> FALSE ]

NoError == [kind |-> "none", required |-> 0, actual |-> 0]

(* ------------------------------ node results --------------------------- *)
\* a node either returns an update (applied to the state) or raises
Ret(st, calls) == [raised |-> FALSE, st |-> st, calls |-> calls]
Raise(st, calls) == [raised |-> TRUE, st |-> st, calls |-> calls]

\* generate_mcq_node
generate_mcq_node(st, out) ==
    LET mcq_current == st.mcq_current_question IN
    IF Len(st.mcq_answers) >= RequiredMcqAnswers
    THEN Ret([st EXCEPT !.current_activity = "processing_mcq"], 0)
    ELSE IF out = "raise" THEN Raise(st, 1)
    ELSE IF out = "unparseable" /\ mcq_current >= FallbackQuestions
         THEN Raise(st, 1)      \* fallback_questions[mcq_current]: IndexError
    ELSE LET question == IF out = "unparseable" THEN "fallback" ELSE out IN
         Ret([st EXCEPT !.mcq_questions = Append(@, question),
                        !.mcq_current_question = mcq_current + 1,
                        !.messages = Append(@, AI("mcq")),
                        !.current_activity = "awaiting_mcq_answer"], 1)

\* process_mcq_answers_node
process_mcq_answers_node(st, out) ==
    IF out = "raise" THEN Raise(st, 1)
    ELSE LET value == IF out = "unparseable" THEN "None" ELSE "interpreted" IN
         Ret([st EXCEPT !.domain = value,
                        !.industry = value,
                        !.case_type = value,
                        !.tech_type = value,
                        !.mcq_completed = TRUE,
                        !.messages = Append(@, AI("confirmation")),
                        !.current_activity = "generating_case"], 1)

\* the required fields a generated document carries, by outcome of the generation call
GeneratedFields(out) ==
    CASE out = "full" -> RequiredCaseFields
      [] out = "no_company_name" -> RequiredCaseFields \ {"company_name"}
      [] out = "no_title" -> RequiredCaseFields \ {"title"}
      [] out = "no_problem_statement" -> RequiredCaseFields \ {"problem_statement"}
      [] OTHER -> {}

\* generate_case_node
generate_case_node(st, out) ==
    IF HasCompanyName(st)
    THEN Ret([st EXCEPT !.current_phase = "understanding",
                        !.current_activity = "awaiting_understanding"], 0)
    ELSE IF out = "raise" THEN Raise(st, 1)
    ELSE LET case_data == GeneratedFields(out)
             stored == IF case_data = {} \/ "problem_statement" \notin case_data
                       THEN RequiredCaseFields      \* the fallback document
                       ELSE case_data
         IN Ret([st EXCEPT !.case_study = [id |-> NewCaseId(st), fields |-> stored],
                           !.messages = Append(@, AI("case")),
                           !.current_phase = "understanding",
                           !.current_activity = "awaiting_understanding",
                           !.understanding_question_count = 0,
                           !.understanding_complete = FALSE], 1)

\* understanding_node with the completion test passing one question early
understanding_node_early(st, out) ==
    LET count == st.understanding_question_count
        last_human_msg == HasHuman(st.messages)
    IN
    IF ~CaseExists(st) THEN Raise(st, 0)
    ELSE IF count = 0 /\ last_human_msg
    THEN IF out = "raise" THEN Raise(st, 1)
         ELSE Ret([st EXCEPT !.messages = Append(@, AI("question")),
                             !.understanding_question_count = 1,
                             !.current_activity = "awaiting_understanding"], 1)
    ELSE IF count = 0 /\ ~last_human_msg
    THEN Ret([st EXCEPT !.current_activity = "awaiting_understanding"], 0)
    ELSE IF count >= UnderstandingMax - 1
    THEN Ret([st EXCEPT !.understanding_complete = TRUE,
                        !.current_activity = "phase_complete"], 0)
    ELSE IF count > 0 /\ ~last_human_msg
    THEN Ret([st EXCEPT !.current_activity = "awaiting_understanding"], 0)
    ELSE Ret([st EXCEPT !.messages = Append(@, AI("question")),
                        !.understanding_question_count = count + 1,
                        !.current_activity = "awaiting_understanding"], 1)

\* understanding_node with the completion test passing one question late
understanding_node_late(st, out) ==
    LET count == st.understanding_question_count
        last_human_msg == HasHuman(st.messages)
    IN
    IF ~CaseExists(st) THEN Raise(st, 0)      \* case_study.get on None
    ELSE IF count = 0 /\ last_human_msg
    THEN IF out = "raise" THEN Raise(st, 1)   \* llm.invoke outside any try
         ELSE Ret([st EXCEPT !.messages = Append(@, AI("question")),
                             !.understanding_question_count = 1,
                             !.current_activity = "awaiting_understanding"], 1)
    ELSE IF count = 0 /\ ~last_human_msg
    THEN Ret([st EXCEPT !.current_activity = "awaiting_understanding"], 0)
    ELSE IF count >= UnderstandingMax + 1
    THEN Ret([st EXCEPT !.understanding_complete = TRUE,
                        !.current_activity = "phase_complete"], 0)
    ELSE IF count > 0 /\ ~last_human_msg
    THEN Ret([st EXCEPT !.current_activity = "awaiting_understanding"], 0)
    ELSE \* the generation call is wrapped in try/except: a fallback question is used
         Ret([st EXCEPT !.messages = Append(@, AI("question")),
                        !.understanding_question_count = count + 1,
                        !.current_activity = "awaiting_understanding"], 1)

\* understanding_node
understanding_node(st, out) ==
    LET count == st.understanding_question_count
        last_human_msg == HasHuman(st.messages)
    IN
    IF ~CaseExists(st) THEN Raise(st, 0)      \* case_study.get on None
    ELSE IF count = 0 /\ last_human_msg
    THEN IF out = "raise" THEN Raise(st, 1)   \* llm.invoke outside any try
         ELSE Ret([st EXCEPT !.messages = Append(@, AI("question")),
                             !.understanding_question_count = 1,
                             !.current_activity = "awaiting_understanding"], 1)
    ELSE IF count = 0 /\ ~last_human_msg
    THEN Ret([st EXCEPT !.current_activity = "awaiting_understanding"], 0)
    ELSE IF count >= UnderstandingMax
    THEN Ret([st EXCEPT !.understanding_complete = TRUE,
                        !.current_activity = "phase_complete"], 0)
    ELSE IF count > 0 /\ ~last_human_msg
    THEN Ret([st EXCEPT !.current_activity = "awaiting_understanding"], 0)
    ELSE \* the generation call is wrapped in try/except: a fallback question is used
         Ret([st EXCEPT !.messages = Append(@, AI("question")),
                        !.understanding_question_count = count + 1,
                        !.current_activity = "awaiting_understanding"], 1)

\* _evaluate_phase: whether it raises, the evaluation it returns and the generation
\* calls it makes
evaluate_phase(st, out) ==
    IF ~CaseExists(st)                        \* case_study.get on None
    THEN [raised |-> TRUE, evaluation |-> NoEvaluation, calls |-> 0]
    ELSE IF out = "raise"                     \* llm.invoke outside any try
    THEN [raised |-> TRUE, evaluation |-> NoEvaluation, calls |-> 1]
    ELSE IF out = "unparseable"               \* one attempt, then the fallback
    THEN [raised |-> FALSE,
          evaluation |-> [FallbackEvaluation EXCEPT
                              !.candidate_key_responses = Excerpts(st)],
          calls |-> 1]
    ELSE IF out = "no_excerpts"               \* 'candidate_key_responses' not in evaluation
    THEN [raised |-> FALSE,
          evaluation |-> [GeneratedEvaluation EXCEPT
                              !.candidate_key_responses = Excerpts(st)],
          calls |-> 1]
    ELSE IF out = "empty_excerpts"            \* the key is present: the list is kept
    THEN [raised |-> FALSE,
          evaluation |-> [GeneratedEvaluation EXCEPT !.candidate_key_responses = 0],
          calls |-> 1]
    ELSE [raised |-> FALSE, evaluation |-> GeneratedEvaluation, calls |-> 1]

\* understanding_evaluation_node
understanding_evaluation_node(st, out) ==
    LET r == evaluate_phase(st, out) IN
    IF r.raised THEN Raise(st, r.calls)
    ELSE Ret([st EXCEPT !.understanding_evaluation = r.evaluation,
                        !.current_phase = "approach",
                        !.approach_question_count = 0,
                        !.approach_complete = FALSE,
                        !.current_activity = "awaiting_approach"], r.calls)

\* approach_node with a first branch that does not count the workspace prompt
approach_node_uncounted(st, out) ==
    LET count == st.approach_question_count
        last_human_msg == HasHuman(st.messages)
    IN
    IF ~CaseExists(st) THEN Raise(st, 0)
    ELSE IF count >= ApproachMax
    THEN Ret([st EXCEPT !.approach_complete = TRUE,
                        !.current_activity = "phase_complete"], 0)
    ELSE IF count = 0
    THEN Ret([st EXCEPT !.messages = Append(@, AI("workspace")),
                        !.current_activity = "awaiting_approach_structured"], 0)
    ELSE IF count = 1 /\ last_human_msg
    THEN Ret([st EXCEPT !.messages = Append(@, AI("question")),
                        !.approach_question_count = 2,
                        !.current_activity = "awaiting_approach"], 1)
    ELSE IF ~last_human_msg
    THEN Ret([st EXCEPT !.current_activity = "awaiting_approach"], 0)
    ELSE Ret([st EXCEPT !.messages = Append(@, AI("question")),
                        !.approach_question_count = count + 1,
                        !.current_activity = "awaiting_approach"], 1)

\* approach_node
approach_node(st, out) ==
    LET count == st.approach_question_count
        last_human_msg == HasHuman(st.messages)
    IN
    IF ~CaseExists(st) THEN Raise(st, 0)      \* case_study.get on None
    ELSE IF count >= ApproachMax
    THEN Ret([st EXCEPT !.approach_complete = TRUE,
                        !.current_activity = "phase_complete"], 0)
    ELSE IF count = 0
    THEN Ret([st EXCEPT !.messages = Append(@, AI("workspace")),
                        !.approach_question_count = 1,
                        !.current_activity = "awaiting_approach_structured"], 0)
    ELSE IF count = 1 /\ last_human_msg
    THEN Ret([st EXCEPT !.messages = Append(@, AI("question")),
                        !.approach_question_count = 2,
                        !.current_activity = "awaiting_approach"], 1)
    ELSE IF ~last_human_msg
    THEN Ret([st EXCEPT !.current_activity = "awaiting_approach"], 0)
    ELSE Ret([st EXCEPT !.messages = Append(@, AI("question")),
                        !.approach_question_count = count + 1,
                        !.current_activity = "awaiting_approach"], 1)

\* approach_evaluation_node
approach_evaluation_node(st, out) ==
    LET r == evaluate_phase(st, out) IN
    IF r.raised THEN Raise(st, r.calls)
    ELSE Ret([st EXCEPT !.approach_evaluation = r.evaluation,
                        !.current_phase = "followup",
                        !.followup_question_count = 0,
                        !.followup_complete = FALSE,
                        !.current_activity = "awaiting_followup"], r.calls)

\* followup_node
followup_node(st, out) ==
    LET count == st.followup_question_count
        last_human_msg == HasHuman(st.messages)
    IN
    IF ~CaseExists(st) THEN Raise(st, 0)      \* case_study.get on None
    ELSE IF count >= FollowupMax
    THEN Ret([st EXCEPT !.followup_complete = TRUE,
                        !.current_activity = "phase_complete"], 0)
    ELSE IF count > 0 /\ ~last_human_msg
    THEN Ret([st EXCEPT !.current_activity = "awaiting_followup"], 0)
    ELSE Ret([st EXCEPT !.messages = Append(@, AI("question")),
                        !.followup_question_count = count + 1,
                        !.current_activity = "awaiting_followup"], 1)

\* followup_evaluation_node
followup_evaluation_node(st, out) ==
    LET r == evaluate_phase(st, out) IN
    IF r.raised THEN Raise(st, r.calls)
    ELSE Ret([st EXCEPT !.followup_evaluation = r.evaluation,
                        !.current_phase = "final",
                        !.current_activity = "generating_report"], r.calls)

\* final_evaluation_node
final_evaluation_node(st, out) ==
    IF ~CaseExists(st) THEN Raise(st, 0)      \* case_study.get on None
    ELSE IF out = "raise" THEN Raise(st, 1)
    ELSE Ret([st EXCEPT !.final_evaluation =
                            IF out \in {"unparseable", "no_dimension_scores"}
                            THEN FallbackFinalEvaluation
                            ELSE IF out = "no_next_steps"   \* stored as returned
                            THEN [GeneratedFinalEvaluation EXCEPT
                                      !.keys = @ \ {"recommended_next_steps"}]
                            ELSE GeneratedFinalEvaluation,
                        !.messages = Append(@, AI("report")),
                        !.interview_complete = TRUE,
                        !.current_activity = "complete"], 1)

(* ------------------------------ the graph ------------------------------ *)
Nodes == {"classification_node", "mcq_processing_node", "case_generation_node",
          "understanding_node", "understanding_evaluation_node", "approach_node",
          "approach_evaluation_node", "followup_node", "followup_evaluation_node",
          "final_evaluation_node"}

\* what a generation call made by the node can come back with
Outcomes(node) ==
    CASE node = "classification_node" ->
             {"question", "question_with_other", "unparseable", "raise"}
      [] node = "mcq_processing_node" -> {"interpretation", "unparseable", "raise"}
      [] node = "case_generation_node" ->
             {"full", "no_company_name", "no_title", "no_problem_statement",
              "unparseable", "raise"}
      [] node \in {"understanding_node", "approach_node", "followup_node"} ->
             {"text", "raise"}
      [] node = "final_evaluation_node" ->
             {"as_prompted", "no_next_steps", "no_dimension_scores", "unparseable",
              "raise"}
      [] OTHER -> {"evaluation", "no_excerpts", "empty_excerpts", "unparseable",
                   "raise"}

\* graph.add_node: the function each node runs
Exec(node, st, out) ==
    CASE node = "classification_node" -> generate_mcq_node(st, out)
      [] node = "mcq_processing_node" -> process_mcq_answers_node(st, out)
      [] node = "case_generation_node" -> generate_case_node(st, out)
      [] node = "understanding_node" -> understanding_node(st, out)
      [] node = "understanding_evaluation_node" -> understanding_evaluation_node(st, out)
      [] node = "approach_node" -> approach_node(st, out)
      [] node = "approach_evaluation_node" -> approach_evaluation_node(st, out)
      [] node = "followup_node" -> followup_node(st, out)
      [] node = "followup_evaluation_node" -> followup_evaluation_node(st, out)
      [] OTHER -> final_evaluation_node(st, out)

\* after_classification that always continues to mcq_processing_node
after_classification_eager(st) == "mcq_processing_node"

after_classification(st) ==
    IF Len(st.mcq_answers) >= RequiredMcqAnswers THEN "mcq_processing_node" ELSE "END"

after_case_generation(st) ==
    IF st.current_activity = "awaiting_understanding"
    THEN IF st.understanding_question_count = 0 THEN "END" ELSE "understanding_node"
    ELSE "END"

should_continue_understanding(st) ==
    IF st.understanding_complete THEN "understanding_evaluation_node"
    ELSE IF st.current_activity = "awaiting_understanding" THEN "END"
    ELSE "understanding_node"

\* should_continue_approach without the branch that ends the pass
should_continue_approach_looping(st) ==
    IF st.approach_complete THEN "approach_evaluation_node" ELSE "approach_node"

should_continue_approach(st) ==
    IF st.approach_complete THEN "approach_evaluation_node"
    ELSE IF st.current_activity = "awaiting_approach" THEN "END"
    ELSE "approach_node"

should_continue_followup(st) ==
    IF st.followup_complete THEN "followup_evaluation_node"
    ELSE IF st.current_activity = "awaiting_followup" THEN "END"
    ELSE "followup_node"

\* the edges of build_interview_graph: the node that runs after `node` returned st
Route(node, st) ==
    CASE node = "classification_node" -> after_classification(st)
      [] node = "mcq_processing_node" -> "case_generation_node"
      [] node = "case_generation_node" -> after_case_generation(st)
      [] node = "understanding_node" -> should_continue_understanding(st)
      [] node = "understanding_evaluation_node" -> "approach_node"
      [] node = "approach_node" -> should_continue_approach(st)
      [] node = "approach_evaluation_node" -> "followup_node"
      [] node = "followup_node" -> should_continue_followup(st)
      [] node = "followup_evaluation_node" -> "final_evaluation_node"
      [] OTHER -> "END"

(* ------------------------- process_graph_stream ------------------------ *)
CanStartPass ==
    /\ pc = "idle"
    /\ Len(interview_state.messages) <= MaxMessages

\* process_graph_stream up to the first node: the trigger message is appended to
\* the state, which is then handed to graph.stream
StartPass(st, trigger, who) ==
    LET handed == IF trigger = "none" THEN st
                  ELSE [st EXCEPT !.messages = Append(@, Human(trigger))]
    IN /\ interview_state' = handed
       /\ entry' = handed
       /\ pc' = "classification_node"
       /\ caller' = who
       /\ llm_calls' = 0
       /\ prev' = "none"

\* NodeStep with a merge that assigns the node's messages instead of appending them
NodeStep_replacing ==
    /\ pc \in Nodes
    /\ \E out \in Outcomes(pc) :
         LET r == Exec(pc, interview_state, out) IN
         /\ interview_state' =
               [r.st EXCEPT !.messages =
                   IF Len(@) > Len(interview_state.messages)
                   THEN SubSeq(@, Len(interview_state.messages) + 1, Len(@))
                   ELSE @]
         /\ llm_calls' = llm_calls + r.calls
         /\ pc' = IF r.raised THEN "failed" ELSE Route(pc, r.st)
    /\ prev' = pc
    /\ UNCHANGED <<initialized, current_page, validation_error,
                   awaiting_custom_industry, caller, entry>>

\* one event of graph.stream: a node runs and its update is merged into the state;
\* a node that raises ends the pass in the except branch
NodeStep ==
    /\ pc \in Nodes
    /\ \E out \in Outcomes(pc) :
         LET r == Exec(pc, interview_state, out) IN
         /\ interview_state' = r.st
         /\ llm_calls' = llm_calls + r.calls
         /\ pc' = IF r.raised THEN "failed" ELSE Route(pc, r.st)
    /\ prev' = pc
    /\ UNCHANGED <<initialized, current_page, validation_error,
                   awaiting_custom_industry, caller, entry>>

\* what the call site does after process_graph_stream has returned
AfterPass(st, who) ==
    CASE who = "mcq_continue" ->
             [st EXCEPT !.mcq_completed = TRUE,
                        !.current_phase = "case_gen",
                        !.mcq_questions = << >>,
                        !.classification_answers = << >>]
      [] who = "understanding_complete" -> [st EXCEPT !.current_phase = "approach"]
      [] who = "approach_complete" -> [st EXCEPT !.current_phase = "final"]
      [] OTHER -> st

\* Return that restores the state handed to graph.stream when the pass has failed
Return_rollback ==
    /\ pc \in {"END", "failed"}
    /\ interview_state' = AfterPass(IF pc = "failed" THEN entry ELSE interview_state,
                                    caller)
    /\ initialized' = IF caller = "welcome" THEN TRUE ELSE initialized
    /\ current_page' = IF caller = "welcome" THEN "interview" ELSE current_page
    /\ pc' = "idle"
    /\ caller' = "none"
    /\ entry' = InitialState
    /\ llm_calls' = 0
    /\ prev' = "none"
    /\ UNCHANGED <<validation_error, awaiting_custom_industry>>

\* process_graph_stream returns (True at END, False after an exception) and the
\* handler that called it runs to its end
Return ==
    /\ pc \in {"END", "failed"}
    /\ interview_state' = AfterPass(interview_state, caller)
    /\ initialized' = IF caller = "welcome" THEN TRUE ELSE initialized
    /\ current_page' = IF caller = "welcome" THEN "interview" ELSE current_page
    /\ pc' = "idle"
    /\ caller' = "none"
    /\ entry' = InitialState
    /\ llm_calls' = 0
    /\ prev' = "none"
    /\ UNCHANGED <<validation_error, awaiting_custom_industry>>

(* ------------------------------ progress ------------------------------- *)
\* calculate_progress: total_questions = 3 + 3 + 4
TotalQuestions == 3 + 3 + 4

\* calculate_progress: the percentage shown in the sidebar
calculate_progress(st) ==
    LET completed == (IF st.mcq_completed THEN 3 ELSE 0)
                     + st.understanding_question_count
                     + st.approach_question_count
    IN (completed * 100) \div TotalQuestions

(* ------------------------------ the driver ----------------------------- *)
LastIsHuman(st) == Len(st.messages) > 0 /\ st.messages[Len(st.messages)].type = "human"

\* main / interview_page: the branch of the page that renders
OnInterviewPage == initialized /\ current_page = "interview" /\ pc = "idle"

InMcqPhase ==
    /\ OnInterviewPage
    /\ ~interview_state.interview_complete
    /\ (interview_state.current_phase = "classification" \/ ~interview_state.mcq_completed)

PastMcq ==
    /\ OnInterviewPage
    /\ ~interview_state.interview_complete
    /\ ~(interview_state.current_phase = "classification" \/ ~interview_state.mcq_completed)

\* handle_conversation_phase: phase_complete
PhaseComplete(st) ==
    IF st.current_phase = "understanding" THEN st.understanding_complete
    ELSE st.approach_complete

\* mcq_phase: a new question has to be generated
NeedsQuestion(st) ==
    /\ Len(st.mcq_questions) < McqUiQuestions
    /\ Len(st.mcq_questions) = Len(st.classification_answers)

\* welcome_page: the start button builds the state and runs the first pass
Welcome ==
    /\ ~initialized /\ pc = "idle"
    /\ StartPass(InitialState, "none", "welcome")
    /\ UNCHANGED <<initialized, current_page, validation_error, awaiting_custom_industry>>

\* ShowResults that also empties the transcript of the finished interview
ShowResults_clearing ==
    /\ OnInterviewPage
    /\ interview_state.interview_complete
    /\ current_page' = "results"
    /\ interview_state' = [interview_state EXCEPT !.messages = << >>]
    /\ UNCHANGED <<initialized, validation_error,
                   awaiting_custom_industry, pc, caller, entry, llm_calls, prev>>

\* interview_page: a finished interview shows the results page
ShowResults ==
    /\ OnInterviewPage
    /\ interview_state.interview_complete
    /\ current_page' = "results"
    /\ UNCHANGED <<interview_state, initialized, validation_error,
                   awaiting_custom_industry, pc, caller, entry, llm_calls, prev>>

\* mcq_phase, mcq_completed already set: move to case_gen
McqAdvance ==
    /\ InMcqPhase
    /\ interview_state.mcq_completed
    /\ interview_state' = [interview_state EXCEPT !.current_phase = "case_gen"]
    /\ UNCHANGED <<initialized, current_page, validation_error,
                   awaiting_custom_industry, pc, caller, entry, llm_calls, prev>>

\* mcq_phase: generate the next question
McqGenerate ==
    /\ InMcqPhase /\ CanStartPass
    /\ ~interview_state.mcq_completed
    /\ NeedsQuestion(interview_state)
    /\ StartPass(interview_state, "none", "mcq_generate")
    /\ UNCHANGED <<initialized, current_page, validation_error, awaiting_custom_industry>>

\* the option buttons of the current question are rendered
McqButtons ==
    /\ InMcqPhase
    /\ ~interview_state.mcq_completed
    /\ ~NeedsQuestion(interview_state)
    /\ Len(interview_state.mcq_questions) > 0

OptionCount(question) == IF question = "question_with_other" THEN 4 ELSE 3

\* mcq_phase: click on an option of the current question
McqAnswer ==
    /\ McqButtons
    /\ LET idx == Len(interview_state.classification_answers) IN
       /\ idx < Len(interview_state.mcq_questions)
       /\ \E opt_idx \in 0..(OptionCount(interview_state.mcq_questions[idx + 1]) - 1) :
            IF idx = 1 /\ opt_idx = 3
            THEN /\ awaiting_custom_industry' = TRUE
                 /\ UNCHANGED <<interview_state, pc, caller, entry, llm_calls, prev>>
            ELSE /\ CanStartPass
                 /\ StartPass([interview_state EXCEPT
                                  !.classification_answers = Append(@, "option")],
                              "mcq_answer", "mcq_answer")
                 /\ UNCHANGED awaiting_custom_industry
    /\ UNCHANGED <<initialized, current_page, validation_error>>

\* mcq_phase: confirm a non-empty custom industry
ConfirmIndustry ==
    /\ McqButtons /\ CanStartPass
    /\ Len(interview_state.classification_answers) = 1
    /\ Len(interview_state.mcq_questions) > 1
    /\ awaiting_custom_industry
    /\ awaiting_custom_industry' = FALSE
    /\ StartPass([interview_state EXCEPT !.classification_answers = Append(@, "custom")],
                 "mcq_answer", "mcq_answer")
    /\ UNCHANGED <<initialized, current_page, validation_error>>

\* mcq_phase: the continue button shown once 3 answers are recorded
McqContinue ==
    /\ McqButtons /\ CanStartPass
    /\ Len(interview_state.classification_answers) >= RequiredMcqAnswers
    /\ StartPass(interview_state, "none", "mcq_continue")
    /\ UNCHANGED <<initialized, current_page, validation_error, awaiting_custom_industry>>

\* interview_page, case_gen without a case: run a pass
CaseGenPass ==
    /\ PastMcq /\ CanStartPass
    /\ interview_state.current_phase = "case_gen"
    /\ ~CaseExists(interview_state)
    /\ StartPass(interview_state, "none", "case_gen")
    /\ UNCHANGED <<initialized, current_page, validation_error, awaiting_custom_industry>>

\* interview_page, case_gen with a case: move to understanding
CaseGenAdvance ==
    /\ PastMcq
    /\ interview_state.current_phase = "case_gen"
    /\ CaseExists(interview_state)
    /\ interview_state' = [interview_state EXCEPT !.current_phase = "understanding"]
    /\ UNCHANGED <<initialized, current_page, validation_error,
                   awaiting_custom_industry, pc, caller, entry, llm_calls, prev>>

InConversation ==
    /\ PastMcq
    /\ interview_state.current_phase \in {"understanding", "approach"}

\* handle_conversation_phase, phase complete: run a pass, then write the next phase
PhaseCompletePass ==
    /\ InConversation /\ CanStartPass
    /\ PhaseComplete(interview_state)
    /\ StartPass(interview_state, "none",
                 IF interview_state.current_phase = "understanding"
                 THEN "understanding_complete" ELSE "approach_complete")
    /\ UNCHANGED <<initialized, current_page, validation_error, awaiting_custom_industry>>

\* handle_conversation_phase: needs_ai_response
NeedsAiResponse(st) == Len(st.messages) = 0 \/ LastIsHuman(st)

AiResponsePass ==
    /\ InConversation /\ CanStartPass
    /\ ~PhaseComplete(interview_state)
    /\ NeedsAiResponse(interview_state)
    /\ StartPass(interview_state, "none", "ai_response")
    /\ UNCHANGED <<initialized, current_page, validation_error, awaiting_custom_industry>>

\* validate_words with the comparison word_count < 9
validate_words_lenient(words) ==
    IF words = 0 THEN [kind |-> "empty", required |-> 0, actual |-> 0]
    ELSE IF words < MinWords - 1
    THEN [kind |-> "too_short", required |-> MinWords, actual |-> words]
    ELSE NoError

\* render_standard_input: the validation message for a response of `words` words
validate_words(words) ==
    IF words = 0 THEN [kind |-> "empty", required |-> 0, actual |-> 0]
    ELSE IF words < MinWords
    THEN [kind |-> "too_short", required |-> MinWords, actual |-> words]
    ELSE NoError

\* render_standard_input: submit a response of `words` words
SubmitWords(words) ==
    /\ InConversation
    /\ interview_state.current_phase = "understanding"
    /\ ~PhaseComplete(interview_state)
    /\ ~NeedsAiResponse(interview_state)
    /\ validation_error' = validate_words(words)
    /\ IF validate_words(words) = NoError
       THEN /\ CanStartPass
            /\ StartPass(interview_state, "response", "submit")
       ELSE UNCHANGED <<interview_state, pc, caller, entry, llm_calls, prev>>
    /\ UNCHANGED <<initialized, current_page, awaiting_custom_industry>>

\* the lengths a candidate's response is drawn from: empty, too short, long enough
WordCounts == {0, 1, MinWords - 1, MinWords, MaxWords}

SubmitResponse == \E words \in WordCounts : SubmitWords(words)

\* interview_page, final without an evaluation: run a pass
FinalPass ==
    /\ PastMcq /\ CanStartPass
    /\ interview_state.current_phase = "final"
    /\ interview_state.final_evaluation = NoFinalEvaluation
    /\ StartPass(interview_state, "none", "final")
    /\ UNCHANGED <<initialized, current_page, validation_error, awaiting_custom_industry>>

\* render_sidebar: restart deletes the whole session
Restart ==
    /\ initialized /\ pc = "idle"
    /\ interview_state' = InitialState
    /\ initialized' = FALSE
    /\ current_page' = "welcome"
    /\ validation_error' = NoError
    /\ awaiting_custom_industry' = FALSE
    /\ UNCHANGED <<pc, caller, entry, llm_calls, prev>>

(* ------------------------------ initial states ------------------------- *)
(* The session starts on the welcome page.  The graph is also entered with *)
(* interviews that are already under way: graph.stream takes whatever      *)
(* InterviewState the session holds, so Init ranges over the states of an  *)
(* interview at each of its stages, with the values the nodes write there  *)
(* (counters within their maxima, a completion flag only with its counter  *)
(* at the maximum, the transcript the stage has produced).  mcq_answers is *)
(* the key read by after_classification and generate_mcq_node; the state   *)
(* holds either no entry or the three answers under it.                    *)
ThreeAnswers == <<"option", "option", "option">>

McqTranscript ==
    <<AI("mcq"), Human("mcq_answer"), AI("mcq"), Human("mcq_answer"),
      AI("mcq"), Human("mcq_answer"), AI("confirmation")>>

RECURSIVE Exchanges(_)
\* n answered questions: (response, question) n times
Exchanges(n) ==
    IF n = 0 THEN << >> ELSE Exchanges(n - 1) \o <<Human("response"), AI("question")>>

Pending(p) == IF p THEN <<Human("response")>> ELSE << >>

CaseDocs == { [id |-> 1, fields |-> RequiredCaseFields],
              [id |-> 1, fields |-> RequiredCaseFields \ {"company_name"}] }

Classified(answers, doc) ==
    [InitialState EXCEPT !.mcq_answers = answers,
                         !.mcq_current_question = 3,
                         !.mcq_completed = TRUE,
                         !.domain = "interpreted",
                         !.industry = "interpreted",
                         !.case_type = "interpreted",
                         !.tech_type = "interpreted",
                         !.case_study = doc]

\* question count, a response pending, completion flag: the flag only at the maximum
UnderstandingProgress ==
    { t \in (0..UnderstandingMax) \X BOOLEAN \X BOOLEAN :
        t[3] => (t[1] = UnderstandingMax /\ t[2]) }

ApproachProgress ==
    { t \in (0..ApproachMax) \X BOOLEAN \X BOOLEAN :
        t[3] => (t[1] = ApproachMax /\ t[2]) }

UnderstandingStates ==
    { [Classified(answers, doc) EXCEPT
          !.current_phase = "understanding",
          !.current_activity = IF done THEN "phase_complete" ELSE "awaiting_understanding",
          !.understanding_question_count = n,
          !.understanding_complete = done,
          !.messages = transcript \o <<AI("case")>> \o Exchanges(n) \o Pending(p)] :
      answers \in {<< >>, ThreeAnswers}, doc \in CaseDocs,
      transcript \in {<< >>, McqTranscript},
      <<n, p, done>> \in UnderstandingProgress }

ApproachActivity(n, done) ==
    IF done THEN "phase_complete"
    ELSE IF n = 1 THEN "awaiting_approach_structured" ELSE "awaiting_approach"

ApproachStates ==
    { [Classified(answers, doc) EXCEPT
          !.current_phase = "approach",
          !.current_activity = ApproachActivity(n, done),
          !.understanding_question_count = UnderstandingMax,
          !.understanding_complete = TRUE,
          !.understanding_evaluation = GeneratedEvaluation,
          !.approach_question_count = n,
          !.approach_complete = done,
          !.messages = transcript \o <<AI("case")>> \o Exchanges(UnderstandingMax)
                       \o <<Human("response")>>
                       \o (IF n = 0 THEN << >>
                           ELSE <<AI("workspace")>> \o Exchanges(n - 1) \o Pending(p))] :
      answers \in {<< >>, ThreeAnswers}, doc \in CaseDocs,
      transcript \in {<< >>, McqTranscript},
      <<n, p, done>> \in ApproachProgress }

FinalStates ==
    { [Classified(answers, [id |-> 1, fields |-> RequiredCaseFields]) EXCEPT
          !.current_phase = "final",
          !.current_activity = IF complete THEN "complete" ELSE "generating_report",
          !.understanding_question_count = UnderstandingMax,
          !.understanding_complete = TRUE,
          !.understanding_evaluation = GeneratedEvaluation,
          !.approach_question_count = ApproachMax,
          !.approach_complete = TRUE,
          !.approach_evaluation = GeneratedEvaluation,
          !.final_evaluation = IF complete THEN GeneratedFinalEvaluation
                               ELSE NoFinalEvaluation,
          !.interview_complete = complete,
          !.messages = <<AI("case")>> \o Exchanges(UnderstandingMax)
                       \o <<Human("response"), AI("workspace")>>
                       \o Exchanges(ApproachMax - 1) \o <<Human("response")>>
                       \o (IF complete THEN <<AI("report")>> ELSE << >>)] :
      answers \in {<< >>, ThreeAnswers}, complete \in BOOLEAN }

\* the classification stage: no question asked yet, or all three answered
ClassificationStates ==
    { [InitialState EXCEPT
          !.mcq_answers = answers,
          !.mcq_questions = [i \in 1..k |-> "question"],
          !.classification_answers = [i \in 1..k |-> "option"],
          !.mcq_current_question = k,
          !.current_activity = IF k = 0 THEN "start" ELSE "awaiting_mcq_answer",
          !.messages = IF k = 0 THEN << >>
                       ELSE SubSeq(McqTranscript, 1, 2 * k)] :
      answers \in {<< >>, ThreeAnswers}, k \in {0, McqUiQuestions} }

StageStates ==
    ClassificationStates \cup UnderstandingStates \cup ApproachStates \cup FinalStates

\* the state of a session before the start button is pressed
FreshSession ==
    /\ interview_state = InitialState
    /\ initialized = FALSE
    /\ current_page = "welcome"

Init ==
    /\ \/ FreshSession
       \/ /\ interview_state \in StageStates
          /\ initialized = TRUE
          /\ current_page = "interview"
    /\ validation_error = NoError
    /\ awaiting_custom_industry = FALSE
    /\ pc = "idle"
    /\ caller = "none"
    /\ entry = InitialState
    /\ llm_calls = 0
    /\ prev = "none"

Next ==
    \/ Welcome
    \/ ShowResults
    \/ McqAdvance
    \/ McqGenerate
    \/ McqAnswer
    \/ ConfirmIndustry
    \/ McqContinue
    \/ CaseGenPass
    \/ CaseGenAdvance
    \/ PhaseCompletePass
    \/ AiResponsePass
    \/ SubmitResponse
    \/ FinalPass
    \/ Restart
    \/ NodeStep
    \/ Return

Spec == Init /\ [][Next]_vars

(* --------------------- the candidate with valid input ------------------ *)
\* render_standard_input: the candidate submits a response that is long enough
SubmitValidResponse == \E words \in {MinWords, MaxWords} : SubmitWords(words)

\* the session without restart and without rejected submissions
NextLive ==
    \/ Welcome
    \/ ShowResults
    \/ McqAdvance
    \/ McqGenerate
    \/ McqAnswer
    \/ ConfirmIndustry
    \/ McqContinue
    \/ CaseGenPass
    \/ CaseGenAdvance
    \/ PhaseCompletePass
    \/ AiResponsePass
    \/ SubmitValidResponse
    \/ FinalPass
    \/ NodeStep
    \/ Return

\* every rerun of the page eventually runs its pass, every pass eventually runs its
\* next node and returns, and the candidate eventually answers
LiveSpec == Init /\ [][NextLive]_vars /\ WF_vars(NextLive)

(* ----------------------- a node invoked on its own --------------------- *)
\* the same interview with every free-text response a deflection ("I don't know")
Deflecting(st) ==
    [st EXCEPT !.messages = [i \in DOMAIN @ |->
                                IF @[i] = Human("response") THEN Human("deflection")
                                ELSE @[i]]]

DeflectionStates == { Deflecting(st) : st \in UnderstandingStates \cup ApproachStates }

\* a node function is about to be called with a state of an interview
InvokeInit ==
    /\ interview_state \in StageStates \cup DeflectionStates
    /\ pc \in Nodes
    /\ entry = interview_state
    /\ caller = "direct"
    /\ initialized = TRUE
    /\ current_page = "interview"
    /\ validation_error = NoError
    /\ awaiting_custom_industry = FALSE
    /\ llm_calls = 0
    /\ prev = "none"

\* the call: the node returns its update, merged into the state, or raises
InvokeNode ==
    /\ pc \in Nodes
    /\ \E out \in Outcomes(pc) :
         LET r == Exec(pc, interview_state, out) IN
         /\ interview_state' = r.st
         /\ llm_calls' = llm_calls + r.calls
         /\ pc' = IF r.raised THEN "failed" ELSE "returned"
    /\ prev' = pc
    /\ UNCHANGED <<initialized, current_page, validation_error,
                   awaiting_custom_industry, caller, entry>>

NodeSpec == InvokeInit /\ [][InvokeNode]_vars

(* ------------------ a pass whose generation calls return ---------------- *)
\* interviews in the followup phase: question count, a response pending, completion
FollowupStates ==
    { [Classified(ThreeAnswers, [id |-> 1, fields |-> RequiredCaseFields]) EXCEPT
          !.current_phase = "followup",
          !.current_activity = IF t[3] THEN "phase_complete" ELSE "awaiting_followup",
          !.understanding_question_count = UnderstandingMax,
          !.understanding_complete = TRUE,
          !.understanding_evaluation = GeneratedEvaluation,
          !.approach_question_count = ApproachMax,
          !.approach_complete = TRUE,
          !.approach_evaluation = GeneratedEvaluation,
          !.followup_question_count = t[1],
          !.followup_complete = t[3],
          !.messages = <<AI("case")>> \o Exchanges(t[1]) \o Pending(t[2])] :
      t \in { u \in (0..FollowupMax) \X BOOLEAN \X BOOLEAN :
                  u[3] => (u[1] = FollowupMax /\ u[2]) } }

\* graph.stream is at one of its nodes with a state of an interview
PassInit ==
    /\ interview_state \in StageStates \cup FollowupStates
    /\ pc \in Nodes
    /\ entry = interview_state
    /\ caller = "direct"
    /\ initialized = TRUE
    /\ current_page = "interview"
    /\ validation_error = NoError
    /\ awaiting_custom_industry = FALSE
    /\ llm_calls = 0
    /\ prev = "none"

\* one event of graph.stream in which every llm.invoke returns a response (of any
\* content); the node can still raise on what it does with the response
ReturningStep ==
    /\ pc \in Nodes
    /\ \E out \in Outcomes(pc) \ {"raise"} :
         LET r == Exec(pc, interview_state, out) IN
         /\ interview_state' = r.st
         /\ llm_calls' = llm_calls + r.calls
         /\ pc' = IF r.raised THEN "failed" ELSE Route(pc, r.st)
    /\ prev' = pc
    /\ UNCHANGED <<initialized, current_page, validation_error,
                   awaiting_custom_industry, caller, entry>>

\* graph.stream yields its next event as long as the pass has not ended
PassSpec == PassInit /\ [][ReturningStep]_vars /\ WF_vars(ReturningStep)

(* ------------------------------ properties ----------------------------- *)
\* the order of the phases; followup is written by approach_evaluation_node only
PhaseRank(phase) ==
    CASE phase = "classification" -> 0
      [] phase = "case_gen" -> 1
      [] phase = "understanding" -> 2
      [] phase = "approach" -> 3
      [] phase = "followup" -> 4
      [] OTHER -> 5

TranscriptFull == pc = "idle" /\ Len(interview_state.messages) > MaxMessages

\* C4: from the initial state, with a candidate who keeps giving valid input and
\* passes that are eventually run, the interview eventually reaches
\* interview_complete = true (or the transcript outgrows the model's bound first).
InterviewEventuallyCompletes ==
    FreshSession => <>(interview_state.interview_complete \/ TranscriptFull)

\* no step of a pass or of the driver sets interview_complete: final_evaluation_node,
\* the only writer, runs in no pass
NoStepCompletes ==
    [][interview_state'.interview_complete => interview_state.interview_complete]_vars

ApproachNodeAtZero ==
    /\ pc = "approach_node"
    /\ CaseExists(interview_state)
    /\ interview_state.approach_question_count = 0

Rejected(words) ==
    /\ interview_state' = interview_state
    /\ pc' = "idle"
    /\ validation_error' = [kind |-> "too_short", required |-> 10, actual |-> words]

Interpretation(st) == <<st.domain, st.industry, st.case_type, st.tech_type>>

\* C11: process_mcq_answers_node invoked with fewer than 3 answers recorded leaves
\* domain, industry, case_type, tech_type, mcq_completed and current_activity
\* unchanged.
InterpretNeedsThreeAnswers ==
    [][(/\ pc = "mcq_processing_node"
        /\ Len(interview_state.mcq_answers) < 3
        /\ Len(interview_state.classification_answers) < 3) =>
         /\ Interpretation(interview_state') = Interpretation(interview_state)
         /\ interview_state'.mcq_completed = interview_state.mcq_completed
         /\ interview_state'.current_activity = interview_state.current_activity]_vars

EvaluatorMovesPhaseForward ==
    [][pc' = "returned" =>
         /\ (pc = "understanding_evaluation_node"
                 /\ interview_state.understanding_complete)
               => interview_state'.current_phase = "approach"
         /\ (pc = "approach_evaluation_node" /\ interview_state.approach_complete)
               => interview_state'.current_phase = "final"]_vars

ReadOnlyAfterComplete ==
    [][(interview_state.interview_complete /\ initialized') =>
         interview_state' = interview_state]_vars

\* C16, its case: the finished interview has been taken to the results page
CompletedOnResultsPage ==
    /\ initialized
    /\ interview_state.interview_complete
    /\ current_page = "results"

\* C17: mcq_questions never holds more than 3 questions.
AtMostThreeQuestions == Len(interview_state.mcq_questions) <= 3

RECURSIVE SumSeq(_)
SumSeq(seq) == IF seq = << >> THEN 0 ELSE Head(seq) + SumSeq(Tail(seq))

\* final_evaluation_node, run on an interview in the final phase, has stored a
\* final_evaluation
FinalEvaluationStored ==
    /\ prev = "final_evaluation_node"
    /\ entry.current_phase = "final"
    /\ interview_state.final_evaluation # NoFinalEvaluation

\* C18: in every final_evaluation that final_evaluation_node stores the weights of
\* dimension_scores sum to 100.
WeightsSumTo100 ==
    FinalEvaluationStored
        => SumSeq(interview_state.final_evaluation.weights) = 100

\* the fixed thresholds of the performance level, the score in tenths of a point
PerformanceLevel(score) ==
    IF score >= 90 THEN "Outstanding"
    ELSE IF score >= 70 THEN "Strong"
    ELSE IF score >= 50 THEN "Competent"
    ELSE IF score >= 30 THEN "Developing"
    ELSE "Needs Improvement"

\* C19: in every final_evaluation that final_evaluation_node stores,
\* performance_level is the threshold function of overall_score, on the fallback
\* path as on the generated path.
LevelMatchesScore ==
    FinalEvaluationStored
        => interview_state.final_evaluation.performance_level
               = PerformanceLevel(interview_state.final_evaluation.overall_score)

\* the evaluation field a phase evaluator node writes
EvaluationOf(node, st) ==
    CASE node = "understanding_evaluation_node" -> st.understanding_evaluation
      [] node = "approach_evaluation_node" -> st.approach_evaluation
      [] OTHER -> st.followup_evaluation

\* C20: a phase evaluator run on a transcript without any candidate response makes
\* no generation call and returns an evaluation with score 0 whose key_observations
\* explain the absence of data.
EmptyTranscriptEvaluation ==
    [][(/\ pc \in {"understanding_evaluation_node", "approach_evaluation_node",
                   "followup_evaluation_node"}
        /\ CaseExists(interview_state)
        /\ ~HasHuman(interview_state.messages)) =>
         /\ pc' = "returned"
         /\ llm_calls' = llm_calls
         /\ EvaluationOf(pc, interview_state').score = 0
         /\ EvaluationOf(pc, interview_state').key_observations = "no_data"]_vars

\* the nodes that call _evaluate_phase
EvaluatorNodes ==
    {"understanding_evaluation_node", "approach_evaluation_node",
     "followup_evaluation_node"}

\* C21: a phase evaluator whose scoring output cannot be parsed makes two attempts
\* and then returns a fallback evaluation that carries an error flag and an error
\* reason, keys an evaluation of the service does not have.
FallbackAfterTwoAttemptsFlagged ==
    [][(/\ pc \in EvaluatorNodes
        /\ pc' = "returned"
        /\ EvaluationOf(pc, interview_state').source = "fallback") =>
         /\ llm_calls' = llm_calls + 2
         /\ {"error", "error_reason"} \subseteq EvaluationOf(pc, interview_state').keys]_vars

\* C22: every evaluation a phase evaluator returns, for any transcript and any
\* scoring output, carries at least one candidate response excerpt.
ExcerptsNeverEmpty ==
    [][(pc \in EvaluatorNodes /\ pc' = "returned") =>
         EvaluationOf(pc, interview_state').candidate_key_responses > 0]_vars

\* the candidate has answered the interviewer and every answer is a deflection
OnlyDeflections(msgs) ==
    /\ \E i \in 1..Len(msgs) : msgs[i] = Human("deflection")
    /\ \A i \in 1..Len(msgs) : msgs[i] # Human("response")

\* C23: an evaluation of a transcript whose responses are all deflections never has
\* a score above 2, on the fallback path as on any other (the score of a generated
\* evaluation is the service's; the fallback score is the program's own).
DeflectionsScoreAtMostTwo ==
    [][(/\ pc \in EvaluatorNodes
        /\ pc' = "returned"
        /\ OnlyDeflections(interview_state.messages)
        /\ EvaluationOf(pc, interview_state').source = "fallback") =>
         EvaluationOf(pc, interview_state').score <= 20]_vars

\* the question counter of the phase a question node serves, and the activity in
\* which that phase waits for a response
QuestionCount(node, st) ==
    IF node = "understanding_node" THEN st.understanding_question_count
    ELSE st.approach_question_count

PhaseOf(node) == IF node = "understanding_node" THEN "understanding" ELSE "approach"

AwaitingActivity(node) ==
    IF node = "understanding_node" THEN "awaiting_understanding" ELSE "awaiting_approach"

\* understanding_node or approach_node is called at question count 0 and returns
FirstStep ==
    /\ pc \in {"understanding_node", "approach_node"}
    /\ interview_state.current_phase = PhaseOf(pc)
    /\ CaseExists(interview_state)
    /\ QuestionCount(pc, interview_state) = 0
    /\ pc' = "returned"

Distance(a, b) == IF a < b THEN b - a ELSE a - b

\* the position of the interviewer's last question in a transcript (0 if none):
\* the case presentation, the workspace prompt or a follow-up question
LastQuestion(msgs) ==
    LET asked == {i \in 1..Len(msgs) :
                     msgs[i] \in {AI("case"), AI("workspace"), AI("question")}}
    IN IF asked = {} THEN 0 ELSE CHOOSE i \in asked : \A j \in asked : j <= i

\* the candidate has responded since the interviewer's last question
NewResponse(msgs) ==
    \E i \in (LastQuestion(msgs) + 1)..Len(msgs) : msgs[i].type = "human"

\* understanding_node or approach_node runs in its phase with the count strictly
\* between 0 and the maximum and a response of the candidate to the last question
QuestionStep ==
    /\ pc \in {"understanding_node", "approach_node"}
    /\ interview_state.current_phase = PhaseOf(pc)
    /\ CaseExists(interview_state)
    /\ QuestionCount(pc, interview_state) > 0
    /\ QuestionCount(pc, interview_state)
           < (IF pc = "understanding_node" THEN UnderstandingMax ELSE ApproachMax)
    /\ NewResponse(interview_state.messages)

QuestionStepSurvivesFailure ==
    [][(/\ pc \in {"understanding_node", "approach_node"}
        /\ interview_state.current_phase = PhaseOf(pc)
        /\ CaseExists(interview_state)
        /\ NewResponse(interview_state.messages)
        /\ QuestionCount(pc, interview_state)
               >= (IF pc = "understanding_node" THEN 0 ELSE 1)
        /\ QuestionCount(pc, interview_state)
               < (IF pc = "understanding_node" THEN UnderstandingMax ELSE ApproachMax)) =>
         /\ pc' = "returned"
         /\ interview_state'.messages
                = Append(interview_state.messages, AI("question"))
         /\ QuestionCount(pc, interview_state')
                = QuestionCount(pc, interview_state) + 1]_vars

MalformedQuestionNeverAborts ==
    [][(/\ pc = "classification_node"
        /\ Len(interview_state.mcq_answers) < RequiredMcqAnswers) =>
         /\ pc' # "failed"
         /\ Len(interview_state'.mcq_questions)
                = Len(interview_state.mcq_questions) + 1]_vars

\* the fields a final evaluation must have
RequiredFinalFields ==
    {"overall_score", "performance_level", "dimension_scores", "key_strengths",
     "development_areas", "phase_breakdown", "recommended_next_steps"}

\* the scores of the phase evaluations the state holds
AvailableScores(st) ==
    LET evals == <<st.understanding_evaluation, st.approach_evaluation,
                   st.followup_evaluation>>
    IN [i \in {j \in 1..3 : evals[j].source # "unset"} |-> evals[i].score]

\* C32: every final evaluation final_evaluation_node stores has all the required
\* fields, whatever the generation call returned, and on the fallback path its
\* overall_score is the mean of the phase evaluation scores the state holds.
FinalEvaluationWellFormed ==
    [][(/\ pc = "final_evaluation_node"
        /\ interview_state.current_phase = "final"
        /\ pc' \notin {"failed", pc}) =>
         LET final == interview_state'.final_evaluation
             scores == AvailableScores(interview_state)
             total == IF DOMAIN scores = {} THEN 0
                      ELSE LET RECURSIVE Sum(_)
                               Sum(S) == IF S = {} THEN 0
                                         ELSE LET i == CHOOSE i \in S : TRUE
                                              IN scores[i] + Sum(S \ {i})
                           IN Sum(DOMAIN scores)
         IN /\ RequiredFinalFields \subseteq final.keys
            /\ (final.source = "fallback" /\ DOMAIN scores # {}) =>
                  final.overall_score * Cardinality(DOMAIN scores) = total]_vars

\* the candidate's responses of the phase an evaluator evaluates, in order: for
\* understanding those between the case presentation and the workspace prompt, for
\* approach those after the workspace prompt
PhaseResponses(node, msgs) ==
    LET at(kind) == {i \in 1..Len(msgs) : msgs[i] = AI(kind)}
        first(S) == CHOOSE i \in S : \A j \in S : i <= j
        from == IF node = "understanding_evaluation_node"
                THEN (IF at("case") = {} THEN Len(msgs) + 1 ELSE first(at("case")))
                ELSE (IF at("workspace") = {} THEN Len(msgs) + 1
                      ELSE first(at("workspace")))
        to == IF node = "understanding_evaluation_node" /\ at("workspace") # {}
              THEN first(at("workspace")) ELSE Len(msgs) + 1
        own == {i \in 1..Len(msgs) : /\ from < i /\ i < to
                                      /\ msgs[i].type = "human"
                                      /\ msgs[i].kind # "mcq_answer"}
    IN [k \in 1..Cardinality(own) |-> msgs[Ascending(own)[k]]]

\* C33: the responses an evaluator of a completed phase hands to the generation
\* service are exactly the candidate's responses of that phase, in order: no MCQ
\* answer, no response of another phase, and none of the phase's responses left out.
EvaluatorGetsPhaseResponses ==
    [][(\/ /\ pc = "understanding_evaluation_node"
           /\ interview_state.current_phase = "understanding"
           /\ interview_state.understanding_complete
           /\ llm_calls' = llm_calls + 1
        \/ /\ pc = "approach_evaluation_node"
           /\ interview_state.current_phase = "approach"
           /\ interview_state.approach_complete
           /\ llm_calls' = llm_calls + 1) =>
         candidate_responses(interview_state)
            = PhaseResponses(pc, interview_state.messages)]_vars

\* the sequence s is a prefix of the sequence t
IsPrefix(s, t) == Len(s) <= Len(t) /\ SubSeq(t, 1, Len(s)) = s

\* C34: messages is append-only: every step of the session (the start of a pass with
\* the candidate's submission, every node of a pass, the handlers' tails) leaves the
\* existing messages as a prefix of the new ones, except the restart of the
\* interview.
MessagesAppendOnly ==
    [][\/ IsPrefix(interview_state.messages, interview_state'.messages)
       \/ (initialized /\ ~initialized')]_vars

\* a pass started on a non-empty transcript has ended with messages appended to it
PassAppendedMessages ==
    /\ pc = "END"
    /\ Len(entry.messages) > 1
    /\ Len(interview_state.messages) > Len(entry.messages)
    /\ IsPrefix(entry.messages, interview_state.messages)

\* the candidate has picked the "Other" option of the industry question and has not
\* confirmed a custom industry yet
CustomIndustryPending ==
    /\ awaiting_custom_industry
    /\ Len(interview_state.classification_answers) = 1
    /\ pc = "idle"

\* C35: picking the "Other" option of the industry question records no answer and
\* starts no pass; until a custom industry is confirmed no answer is recorded and no
\* pass runs; confirming records exactly one answer, the custom text; and
\* classification_answers never holds more answers than there are questions.
OtherIndustryWaitsForCustom ==
    [][/\ (~awaiting_custom_industry /\ awaiting_custom_industry') =>
             (interview_state' = interview_state /\ pc' = pc)
       /\ CustomIndustryPending =>
             \/ interview_state' = interview_state /\ pc' = pc
             \/ /\ ~awaiting_custom_industry'
                /\ interview_state'.classification_answers
                       = Append(interview_state.classification_answers, "custom")
             \/ ~initialized'
       /\ Len(interview_state'.classification_answers)
              <= Len(interview_state'.mcq_questions)]_vars

CountersWithinMaxima ==
    /\ interview_state.understanding_question_count \in 0..UnderstandingMax
    /\ interview_state.approach_question_count \in 0..ApproachMax
    /\ calculate_progress(interview_state) <= 100

\* a pass has asked the last understanding question: the counter is at its maximum
UnderstandingCountAtMaximum ==
    /\ pc = "END"
    /\ prev = "understanding_node"
    /\ entry.understanding_question_count = UnderstandingMax - 1
    /\ interview_state.understanding_question_count = UnderstandingMax

\* C39: a failed pass is not rolled back.  The step in which a node raises leaves
\* the state as the earlier nodes of the pass and the appended candidate message
\* made it; process_graph_stream then returns to its caller (the exception is not
\* propagated) and the state the caller continues with is that state, with the
\* caller's own tail writes, not the state the pass started from.
FailedPassNotRolledBack ==
    [][/\ (pc \in Nodes /\ pc' = "failed") => interview_state' = interview_state
       /\ pc = "failed" =>
             /\ pc' = "idle"
             /\ interview_state' = AfterPass(interview_state, caller)
             /\ interview_state'.messages = interview_state.messages
             /\ IsPrefix(entry.messages, interview_state'.messages)]_vars

\* a pass started by a candidate response has failed after an earlier node had
\* appended a message
FailedAfterUpdates ==
    /\ pc = "failed"
    /\ caller = "submit"
    /\ LastIsHuman(entry)
    /\ Len(interview_state.messages) > Len(entry.messages)
    /\ prev # "classification_node"

====
